---------------------------- MODULE Spec2Model ----------------------------
(***************************************************************************)
(* A model of simulator.py: the RPL-style routing simulation run by a      *)
(* discrete-event scheduler (simpy).  The state is the Node fields the     *)
(* handlers mutate, the scheduler's clock and its event queue.  Every      *)
(* generator of class Node is one action: the action pops the event at    *)
(* the head of the queue and runs that generator from its current resume   *)
(* point up to its next yield (or its end).                                *)
(*                                                                         *)
(* Time is counted in ticks of 0.1 time unit, the smallest delay of the    *)
(* code.  Distances are compared squared: for the integer coordinates of   *)
(* the code d1 < d2 and d <= range are decided by the squares.            *)
(***************************************************************************)
EXTENDS Integers, Sequences, FiniteSets, TLC

\* ------------------------------------------------------------------ bounds
\* Largest NUM_NODES explored (config["NUM_NODES"]).
MaxNodes == 3
\* config["AREA_WIDTH"], config["AREA_HEIGHT"]: positions are integer points
\* of 0..AreaWidth x 0..AreaHeight.
AreaWidth == 2
AreaHeight == 0
\* config["CONNECTION_RANGE"], config["DIO_INTERVAL"], config["RUNTIME"] of
\* the runs of Spec (in time units).
ConnectionRange == 1
DioInterval == 1
Runtime == 3
\* The runs of SpecTrickle: NUM_NODES and RUNTIME.
TrickleNodes == 3
TrickleRuntime == 28
\* NUM_NODES of the runs of SpecClusters.
ClusterNodes == 4
\* RUNTIME of the runs of SpecTwoRuns.
RerunRuntime == 4

\* --------------------------------------------------------------- constants
\* Ticks per time unit: the 0.1 of discover_neighbors and receive_dis is 1 tick.
TicksPerUnit == 10
\* Mutant: discovery waits until after the first trickle firing.
DiscoverDelayLate == TicksPerUnit + 1
DiscoverDelay == 1
ReceiveDisDelay == 1
\* The default config["DIO_INTERVAL"].
DefaultDioInterval == 10
Imin == 1
Imax == 10
\* simpy's event priorities.
URGENT == 0
NORMAL == 1
\* Python's None, for parent and for a frame without argument.
None == -1

\* runs: the final neighbors, parent and prefix of the executions of main()
\* that came before the current one.
VARIABLES config, position, neighbors, parent, prefix, I, t, now, queue, done, runs

vars == <<config, position, neighbors, parent, prefix, I, t, now, queue, done, runs>>

all_nodes == DOMAIN position

\* ------------------------------------------------------------ formatting
HexDigits == <<"0", "1", "2", "3", "4", "5", "6", "7", "8", "9", "a", "b", "c", "d", "e", "f">>

RECURSIVE HexStr(_)
\* format(n, 'x'): the hexadecimal digits of n, most significant first.
HexStr(n) == IF n < 16 THEN <<HexDigits[n + 1]>>
             ELSE HexStr(n \div 16) \o <<HexDigits[(n % 16) + 1]>>

\* f'{n:02x}': hexadecimal, zero-padded to at least two digits.
Format02x(n) == IF n < 16 THEN <<"0">> \o HexStr(n) ELSE HexStr(n)

\* f':{int(self.node_id[4:]):02x}': the address suffix of node n.
Suffix(n) == <<":">> \o Format02x(n)

\* f'2001:db8::{int(node_id[4:]):02x}': the prefix a node is created with.
InitialPrefix(n) == <<"2", "0", "0", "1", ":", "d", "b", "8", ":", ":">> \o Format02x(n)

\* Python's `s in p` on strings: s occurs in p as a contiguous substring.
Contains(p, s) == \E i \in 1..(Len(p) - Len(s) + 1) : SubSeq(p, i, i + Len(s) - 1) = s

\* f'{sender.prefix}:{suffix of n}'
ExtendPrefix(p, n) == p \o Suffix(n)

\* --------------------------------------------------------------- geometry
\* calculate_distance, squared.
calculate_distance(a, b) == (a[1] - b[1]) * (a[1] - b[1]) + (a[2] - b[2]) * (a[2] - b[2])

\* Mutant: the range test excludes the distance CONNECTION_RANGE itself.
InRangeExclusive(self, node) ==
    /\ node # self
    /\ calculate_distance(position[self], position[node])
          < config.CONNECTION_RANGE * config.CONNECTION_RANGE

\* Mutant: the range test without `node != self`.
InRangeSelf(self, node) ==
    calculate_distance(position[self], position[node])
       <= config.CONNECTION_RANGE * config.CONNECTION_RANGE

\* node != self and self.calculate_distance(node.position) <= CONNECTION_RANGE
InRange(self, node) ==
    /\ node # self
    /\ calculate_distance(position[self], position[node])
          <= config.CONNECTION_RANGE * config.CONNECTION_RANGE

\* all_nodes in list order from node k on (the nodes are numbered in
\* creation order).
NodesFrom(k) == [i \in 1..Cardinality({node \in all_nodes : node >= k}) |-> k + i - 1]

\* The nodes a DIS of `self` reaches, in all_nodes order.
Reachable(self) == SelectSeq(NodesFrom(0), LAMBDA node : InRange(self, node))

\* `x in list`
Member(x, list) == \E i \in 1..Len(list) : list[i] = x

\* ---------------------------------------------------------------- scheduler
\* A process is a frame: the generator function, the node it is bound to, its
\* arguments and its resume point.  An event carries the stack of frames it
\* resumes: the head is the process resumed when the event is processed, the
\* rest are the processes join-waiting on it, innermost first.
Frame(fn, self, arg, pfx, pc) == [fn |-> fn, self |-> self, arg |-> arg, pfx |-> pfx, pc |-> pc]

At(fr, pc) == [fr EXCEPT !.pc = pc]

Before(e, time, prio) == e.time < time \/ (e.time = time /\ e.prio <= prio)

\* Environment.schedule: the queue is ordered by (time, priority, event id);
\* event ids grow, so a new event goes behind all events of its time and
\* priority.
schedule(q, time, prio, stack) ==
    LET k == Cardinality({i \in 1..Len(q) : Before(q[i], time, prio)})
    IN  SubSeq(q, 1, k) \o <<[time |-> time, prio |-> prio, stack |-> stack]>>
           \o SubSeq(q, k + 1, Len(q))

\* env.process(gen): an Initialize event, URGENT, at the current time.
process(q, time, fr, waiters) == schedule(q, time, URGENT, <<fr>> \o waiters)

\* env.timeout(delay), yielded by the process at the head of `stack`.
timeout(q, time, delay, stack) == schedule(q, time + delay, NORMAL, stack)

\* A generator that ends: its Process event is scheduled NORMAL at the
\* current time; its callbacks are the processes waiting on it.
finish(q, time, stack) == schedule(q, time, NORMAL, Tail(stack))

RECURSIVE processAll(_, _, _)
\* env.process for each frame of a list, in order.
processAll(q, time, frames) ==
    IF frames = <<>> THEN q
    ELSE processAll(process(q, time, Head(frames), <<>>), time, Tail(frames))

Running == ~done /\ queue # <<>>

\* Environment.step pops the head of the queue; it resumes a process of
\* generator fn.
Resumes(fn) == /\ Running
               /\ Head(queue).stack # <<>>
               /\ Head(Head(queue).stack).fn = fn

\* random.uniform(a, b): the values drawn, a subset of [a, b].
uniform(a, b) == {a, b}

\* ---------------------------------------------------------------- main
\* Environment.run(until): an `until` that is not after the current time (0
\* when main() calls it) raises ValueError.
RunRaises(runtime) == runtime * TicksPerUnit <= 0

\* main(): the nodes are created and their three processes spawned in creation
\* order; env.run(until=RUNTIME) schedules the stop event URGENT at RUNTIME.
\* When env.run raises, the exception leaves main(): no event is processed
\* and the run never returns (the queue is empty, done stays FALSE).
InitialQueue(n, runtime) ==
    IF RunRaises(runtime) THEN <<>> ELSE
    [k \in 1..(3 * n + 1) |->
        IF k = 3 * n + 1
        THEN [time |-> runtime * TicksPerUnit, prio |-> URGENT,
              stack |-> <<Frame("until", None, None, <<>>, "start")>>]
        ELSE [time |-> 0, prio |-> URGENT,
              stack |-> <<Frame(<<"trickle_timer", "discover_neighbors", "send_dio">>[((k - 1) % 3) + 1],
                                (k - 1) \div 3, None, <<>>, "start")>>]]

Positions == (0..AreaWidth) \X (0..AreaHeight)

\* The fields of n nodes after Node.__init__, and the scheduler after main()
\* has spawned their processes.
Created(n, cfg) ==
    /\ config = cfg
    /\ neighbors = [k \in 0..(n - 1) |-> <<>>]
    /\ parent = [k \in 0..(n - 1) |-> None]
    /\ prefix = [k \in 0..(n - 1) |-> InitialPrefix(k)]
    /\ I = [k \in 0..(n - 1) |-> Imin]
    /\ t \in [0..(n - 1) -> uniform(Imin, Imin)]
    /\ now = 0
    /\ queue = InitialQueue(n, cfg.RUNTIME)
    /\ done = FALSE
    /\ runs = <<>>

Start(n, cfg) ==
    /\ position \in [0..(n - 1) -> Positions]
    /\ Created(n, cfg)

Init == \E n \in 1..MaxNodes :
           Start(n, [CONNECTION_RANGE |-> ConnectionRange,
                     DIO_INTERVAL |-> DioInterval,
                     RUNTIME |-> Runtime])

\* Runs with RUNTIME = 0 next to the runs of Init.
InitRuntimes == \E n \in 1..MaxNodes : \E runtime \in {0, Runtime} :
                   Start(n, [CONNECTION_RANGE |-> ConnectionRange,
                             DIO_INTERVAL |-> DioInterval,
                             RUNTIME |-> runtime])

\* The lowest node number that f'{n:02x}' writes with three digits, and the
\* node whose two digits are the first two of those three.
LongNode == 16 * 16
ShadowedNode == LongNode \div 16

\* NUM_NODES = LongNode + 1 in a wide area: the nodes are out of range of
\* each other, except that the last node is at CONNECTION_RANGE from node
\* ShadowedNode.
LongIdPositions ==
    [k \in 0..LongNode |->
        IF k = LongNode THEN <<(2 * ConnectionRange + 1) * ShadowedNode + ConnectionRange, 0>>
        ELSE <<(2 * ConnectionRange + 1) * k, 0>>]

\* The runs of Init and a run of one time unit with node numbers up to
\* LongNode.
InitLongIds ==
    \/ Init
    \/ /\ position = LongIdPositions
       /\ Created(LongNode + 1, [CONNECTION_RANGE |-> ConnectionRange,
                                 DIO_INTERVAL |-> DioInterval,
                                 RUNTIME |-> 1])

\* Runs for the trickle timer: long enough for the interval to reach Imax,
\* the nodes at either end of the area's first row.
InitTrickle ==
    /\ Start(TrickleNodes, [CONNECTION_RANGE |-> ConnectionRange,
                            DIO_INTERVAL |-> DefaultDioInterval,
                            RUNTIME |-> TrickleRuntime])
    /\ \A n \in all_nodes : position[n] \in {<<0, 0>>, <<AreaWidth, 0>>}

\* The ways to split the nodes into two clusters: the nodes of each cluster
\* mutually within CONNECTION_RANGE, the clusters farther apart than that.
Clusters ==
    {A \in SUBSET all_nodes :
        /\ A # {}
        /\ A # all_nodes
        /\ \A a, b \in A : a # b => InRange(a, b)
        /\ \A a, b \in all_nodes \ A : a # b => InRange(a, b)
        /\ \A a \in A, b \in all_nodes \ A : ~InRange(a, b)}

\* Scenario C: two clusters of nodes.
InitClusters ==
    /\ Start(ClusterNodes, [CONNECTION_RANGE |-> ConnectionRange,
                            DIO_INTERVAL |-> DioInterval,
                            RUNTIME |-> Runtime])
    /\ Clusters # {}

\* Runs that are executed twice: NUM_NODES = MaxNodes, the nodes in the area's
\* first row at 0, at CONNECTION_RANGE or at the far end.
InitTwoRuns ==
    /\ Start(MaxNodes, [CONNECTION_RANGE |-> ConnectionRange,
                        DIO_INTERVAL |-> DioInterval,
                        RUNTIME |-> RerunRuntime])
    /\ \A n \in all_nodes :
          position[n] \in {<<0, 0>>, <<ConnectionRange, 0>>, <<AreaWidth, 0>>}

\* ------------------------------------------------------------- handlers
\* Node.discover_neighbors
discover_neighbors ==
    /\ Resumes("discover_neighbors")
    /\ LET ev == Head(queue)
           fr == Head(ev.stack)
           q == Tail(queue)
       IN  /\ now' = ev.time
           /\ queue' =
                IF fr.pc = "start"
                THEN timeout(q, ev.time, DiscoverDelay, <<At(fr, "wait")>> \o Tail(ev.stack))
                ELSE finish(processAll(q, ev.time,
                               [k \in 1..Len(Reachable(fr.self)) |->
                                   Frame("receive_dis", Reachable(fr.self)[k], fr.self, <<>>, "start")]),
                            ev.time, ev.stack)
    /\ UNCHANGED <<config, position, neighbors, parent, prefix, I, t, done, runs>>

\* Node.send_dis
send_dis ==
    /\ Resumes("send_dis")
    /\ LET ev == Head(queue)
           fr == Head(ev.stack)
           q == Tail(queue)
           probes == IF neighbors[fr.self] = <<>>
                     THEN [k \in 1..Len(Reachable(fr.self)) |->
                              Frame("receive_dis", Reachable(fr.self)[k], fr.self, <<>>, "start")]
                     ELSE <<>>
       IN  /\ now' = ev.time
           /\ queue' =
                IF fr.pc = "start"
                THEN timeout(processAll(q, ev.time, probes), ev.time, 0,
                             <<At(fr, "final")>> \o Tail(ev.stack))
                ELSE finish(q, ev.time, ev.stack)
    /\ UNCHANGED <<config, position, neighbors, parent, prefix, I, t, done, runs>>

\* Mutant: the link is recorded on the receiver's side only.
LinkOneWay(self, sender) == [neighbors EXCEPT ![self] = Append(@, sender)]

\* Mutant: the receiver is appended to the list of every other node.
LinkToAll(self, sender) ==
    [k \in all_nodes |-> IF k = self THEN Append(neighbors[k], sender)
                         ELSE Append(neighbors[k], self)]

\* Mutant: the receiver's list is overwritten instead of appended to.
LinkOverwrite(self, sender) ==
    LET mine == [neighbors EXCEPT ![self] = <<sender>>]
    IN  [mine EXCEPT ![sender] = Append(@, self)]

\* self.neighbors.append(sender); sender.neighbors.append(self)
Link(self, sender) ==
    LET mine == [neighbors EXCEPT ![self] = Append(@, sender)]
    IN  [mine EXCEPT ![sender] = Append(@, self)]

\* Node.receive_dis
receive_dis ==
    /\ Resumes("receive_dis")
    /\ LET ev == Head(queue)
           fr == Head(ev.stack)
           q == Tail(queue)
           self == fr.self
           sender == fr.arg
           fresh == fr.pc = "start" /\ ~Member(sender, neighbors[self])
       IN  /\ now' = ev.time
           /\ neighbors' = IF fresh THEN Link(self, sender) ELSE neighbors
           /\ queue' =
                IF fr.pc = "start"
                THEN timeout(IF fresh
                             THEN process(q, ev.time, Frame("receive_dio", sender, self, <<>>, "start"), <<>>)
                             ELSE q,
                             ev.time, ReceiveDisDelay, <<At(fr, "final")>> \o Tail(ev.stack))
                ELSE finish(q, ev.time, ev.stack)
    /\ UNCHANGED <<config, position, parent, prefix, I, t, done, runs>>

\* Mutant: the DIO goes to every node that is not a child, neighbor or not.
DioTargetsAnyNode(self) == SelectSeq(NodesFrom(0), LAMBDA neighbor : neighbor # self /\ parent[neighbor] # self)

\* The neighbors send_dio advertises to: those whose parent is not self.
DioTargets(self) == SelectSeq(neighbors[self], LAMBDA neighbor : parent[neighbor] # self)

\* The delay of send_dio's timeout: config["DIO_INTERVAL"].
DioDelay(self) == config.DIO_INTERVAL * TicksPerUnit

\* Node.send_dio: one pass of the loop, up to the timeout.
send_dio ==
    /\ Resumes("send_dio")
    /\ LET ev == Head(queue)
           fr == Head(ev.stack)
           q == Tail(queue)
           targets == DioTargets(fr.self)
       IN  /\ now' = ev.time
           /\ queue' = timeout(processAll(q, ev.time,
                                  [k \in 1..Len(targets) |->
                                      Frame("receive_dio", targets[k], fr.self, <<>>, "start")]),
                               ev.time, DioDelay(fr.self),
                               <<At(fr, "wait")>> \o Tail(ev.stack))
    /\ UNCHANGED <<config, position, neighbors, parent, prefix, I, t, done, runs>>

\* Mutant: the guard looks for the receiver's two digits without the ":".
DioGuardNoColon(self, sender) == Contains(prefix[sender], Format02x(self))

\* Mutant: the guard is missing.
DioGuardMissing(self, sender) == FALSE

\* Mutant: the guard looks for the sender's suffix in the receiver's prefix.
DioGuardSwapped(self, sender) == Contains(prefix[self], Suffix(sender))

\* receive_dio's loop-avoidance guard: the receiver's suffix occurs in the
\* sender's prefix.
DioGuard(self, sender) == Contains(prefix[sender], Suffix(self))

\* Mutant: a sender that is no farther than the current parent is adopted.
AdoptsNotFarther(self, sender) ==
    \/ parent[self] = None
    \/ calculate_distance(position[self], position[sender])
          <= calculate_distance(position[self], position[parent[self]])

\* receive_dio's parent-selection rule.
Adopts(self, sender) ==
    \/ parent[self] = None
    \/ calculate_distance(position[self], position[sender])
          < calculate_distance(position[self], position[parent[self]])

\* Mutant: the prefix is built from the address the sender was created with.
AdoptedPrefixFromAddress(self, sender) == ExtendPrefix(InitialPrefix(sender), self)

\* Mutant: the node appends its suffix to its own prefix.
AdoptedPrefixOwn(self, sender) == ExtendPrefix(prefix[self], self)

\* The prefix receive_dio gives a node that adopts sender.
AdoptedPrefix(self, sender) == ExtendPrefix(prefix[sender], self)

\* Node.receive_dio
receive_dio ==
    /\ Resumes("receive_dio")
    /\ LET ev == Head(queue)
           fr == Head(ev.stack)
           q == Tail(queue)
           self == fr.self
           sender == fr.arg
           adopt == fr.pc = "start" /\ ~DioGuard(self, sender) /\ Adopts(self, sender)
       IN  /\ now' = ev.time
           /\ parent' = IF adopt THEN [parent EXCEPT ![self] = sender] ELSE parent
           /\ prefix' = IF adopt THEN [prefix EXCEPT ![self] = AdoptedPrefix(self, sender)]
                        ELSE prefix
           /\ queue' =
                CASE fr.pc = "start" /\ DioGuard(self, sender) ->
                        finish(q, ev.time, ev.stack)
                  [] adopt ->
                        process(q, ev.time, Frame("send_dao", self, None, <<>>, "start"),
                                <<At(fr, "join")>> \o Tail(ev.stack))
                  [] fr.pc \in {"start", "join"} /\ ~adopt /\ ~(fr.pc = "start" /\ DioGuard(self, sender)) ->
                        timeout(q, ev.time, 0, <<At(fr, "final")>> \o Tail(ev.stack))
                  [] OTHER ->
                        finish(q, ev.time, ev.stack)
    /\ UNCHANGED <<config, position, neighbors, I, t, done, runs>>

\* Node.send_dao
send_dao ==
    /\ Resumes("send_dao")
    /\ LET ev == Head(queue)
           fr == Head(ev.stack)
           q == Tail(queue)
           self == fr.self
       IN  /\ now' = ev.time
           /\ queue' =
                IF fr.pc = "start" /\ parent[self] # None
                THEN process(q, ev.time,
                             Frame("receive_dao", parent[self], self, prefix[self], "start"),
                             <<At(fr, "join")>> \o Tail(ev.stack))
                ELSE finish(q, ev.time, ev.stack)
    /\ UNCHANGED <<config, position, neighbors, parent, prefix, I, t, done, runs>>

\* receive_dao's guard: the child's suffix occurs in the announced prefix.
DaoGuard(pfx, child) == Contains(pfx, Suffix(child))

\* Node.receive_dao
receive_dao ==
    /\ Resumes("receive_dao")
    /\ LET ev == Head(queue)
           fr == Head(ev.stack)
           q == Tail(queue)
           self == fr.self
           child == fr.arg
       IN  /\ now' = ev.time
           /\ queue' =
                IF fr.pc = "start" /\ ~DaoGuard(fr.pfx, child)
                THEN timeout(IF parent[self] # None
                             THEN process(q, ev.time,
                                          Frame("receive_dao", parent[self], self, fr.pfx, "start"),
                                          <<>>)
                             ELSE q,
                             ev.time, 0, <<At(fr, "final")>> \o Tail(ev.stack))
                ELSE finish(q, ev.time, ev.stack)
    /\ UNCHANGED <<config, position, neighbors, parent, prefix, I, t, done, runs>>

\* Mutant: the interval doubles without the cap.
NextIntervalUncapped(i) == i * 2

\* self.I = min(self.I * 2, self.Imax)
NextInterval(i) == IF i * 2 < Imax THEN i * 2 ELSE Imax

\* Node.trickle_timer
trickle_timer ==
    /\ Resumes("trickle_timer")
    /\ LET ev == Head(queue)
           fr == Head(ev.stack)
           q == Tail(queue)
           self == fr.self
           solicit == fr.pc = "wait" /\ neighbors[self] = <<>>
           fire == fr.pc = "join" \/ (fr.pc = "wait" /\ neighbors[self] # <<>>)
       IN  /\ now' = ev.time
           /\ I' = IF fire THEN [I EXCEPT ![self] = NextInterval(@)] ELSE I
           /\ \E draw \in (IF fire THEN uniform(I'[self], Imax) ELSE {t[self]}) :
                 /\ t' = [t EXCEPT ![self] = draw]
                 /\ queue' =
                      IF solicit
                      THEN process(q, ev.time, Frame("send_dis", self, None, <<>>, "start"),
                                   <<At(fr, "join")>> \o Tail(ev.stack))
                      ELSE timeout(q, ev.time, draw * TicksPerUnit,
                                   <<At(fr, "wait")>> \o Tail(ev.stack))
    /\ UNCHANGED <<config, position, neighbors, parent, prefix, done, runs>>

\* Environment.run: the stop event ends the run; the events left are dropped.
StopSimulation ==
    /\ Resumes("until")
    /\ now' = Head(queue).time
    /\ done' = TRUE
    /\ queue' = Tail(queue)
    /\ UNCHANGED <<config, position, neighbors, parent, prefix, I, t, runs>>

\* Environment.step on an event without callbacks (a finished process nobody
\* waits on).
Discard ==
    /\ Running
    /\ Head(queue).stack = <<>>
    /\ now' = Head(queue).time
    /\ queue' = Tail(queue)
    /\ UNCHANGED <<config, position, neighbors, parent, prefix, I, t, done, runs>>

\* What the reporting code of main() reads of the final state.
Final == [neighbors |-> neighbors, parent |-> parent, prefix |-> prefix]

\* Mutant: the generator is not seeded; a second execution draws positions
\* of its own.
RedrawUnseeded == [all_nodes -> Positions]

\* random.seed(config["RANDOM_SEED"]): an execution with the same RANDOM_SEED
\* draws the same positions again.
Redraw == {position}

\* The program is executed again with the same configuration: main() starts
\* afresh.
Rerun ==
    /\ done
    /\ runs = <<>>
    /\ runs' = Append(runs, Final)
    /\ neighbors' = [k \in all_nodes |-> <<>>]
    /\ parent' = [k \in all_nodes |-> None]
    /\ prefix' = [k \in all_nodes |-> InitialPrefix(k)]
    /\ I' = [k \in all_nodes |-> Imin]
    /\ t' \in [all_nodes -> uniform(Imin, Imin)]
    /\ now' = 0
    /\ queue' = InitialQueue(Cardinality(all_nodes), config.RUNTIME)
    /\ done' = FALSE
    /\ position' \in Redraw
    /\ UNCHANGED config

Next ==
    \/ trickle_timer
    \/ discover_neighbors
    \/ send_dio
    \/ receive_dio
    \/ send_dis
    \/ receive_dis
    \/ send_dao
    \/ receive_dao
    \/ Discard
    \/ StopSimulation

Spec == Init /\ [][Next]_vars

SpecTrickle == InitTrickle /\ [][Next]_vars

SpecRuntimes == InitRuntimes /\ [][Next]_vars

SpecLongIds == InitLongIds /\ [][Next]_vars

SpecClusters == InitClusters /\ [][Next]_vars

NextTwoRuns == Next \/ Rerun

SpecTwoRuns == InitTwoRuns /\ [][NextTwoRuns]_vars
\* ================================================================= claims
\* The squared distance between two nodes.
Dist(a, b) == calculate_distance(position[a], position[b])

RECURSIVE Reaches(_, _, _)
\* m is met by following at most k parent references from n.
Reaches(n, m, k) ==
    /\ k > 0
    /\ parent[n] # None
    /\ (parent[n] = m \/ Reaches(parent[n], m, k - 1))

\* The frames of all events in the queue.
Frames == UNION {{queue[i].stack[j] : j \in 1..Len(queue[i].stack)} : i \in 1..Len(queue)}

\* The senders whose DIO node n has adopted in a receive_dio that has not
\* returned yet (it waits for its send_dao).
JoinedDio(n) == {fr.arg : fr \in {f \in Frames : f.fn = "receive_dio" /\ f.self = n /\ f.pc = "join"}}

\* The process resumed by the event that is processed next.
Top == Head(Head(queue).stack)

\* The number of ":"-separated address segments of a prefix.
Segments(p) == Cardinality({i \in 1..Len(p) : p[i] = ":"}) + 1

Roots(S) == {n \in S : parent[n] = None}

\* C1: in every reachable state the parent relation is acyclic: following
\* parent references from a node never returns to that node.
C1_ParentAcyclic == \A n \in all_nodes : ~Reaches(n, n, Cardinality(all_nodes))

\* C2: the neighbor relation is symmetric in every reachable state: B is in
\* A.neighbors if and only if A is in B.neighbors.
C2_NeighborsSymmetric ==
    \A a, b \in all_nodes : Member(b, neighbors[a]) <=> Member(a, neighbors[b])

C2_Witness ==
    \E a, b \in all_nodes :
        /\ a # b
        /\ Member(b, neighbors[a])
        /\ Member(a, neighbors[b])
        /\ Cardinality(all_nodes) = MaxNodes
        /\ \E c \in all_nodes : neighbors[c] = <<>>

\* C3: whenever receive_dio changes a node's parent from old to new, old was
\* absent or the node is strictly closer to new than to old; a parent changes
\* in no other way, and a receive_dio step that does not change the parent
\* leaves parent and prefix unchanged.
C3_ParentImprovement ==
    [][/\ \A n \in all_nodes :
             parent'[n] # parent[n] =>
                /\ Resumes("receive_dio")
                /\ Top.self = n
                /\ parent'[n] = Top.arg
                /\ (parent[n] = None \/ Dist(n, parent'[n]) < Dist(n, parent[n]))
       /\ (Resumes("receive_dio") /\ parent'[Top.self] = parent[Top.self]) =>
             (parent' = parent /\ prefix' = prefix)]_vars

\* A node has re-parented in this instant: it adopted a, then the strictly
\* closer sender that is its parent now.
C3_Witness ==
    \E n \in all_nodes : \E a \in JoinedDio(n) :
        /\ parent[n] \in JoinedDio(n)
        /\ a # parent[n]
        /\ Dist(n, parent[n]) < Dist(n, a)

RECURSIVE Grow(_, _)
\* The nodes joined to a node of S by at most k neighbor links.
Grow(S, k) ==
    IF k = 0 THEN S
    ELSE Grow(S \cup {m \in all_nodes : \E n \in S : Member(m, neighbors[n])}, k - 1)

\* The connected components of the neighbor graph.
Components == {Grow({n}, Cardinality(all_nodes)) : n \in all_nodes}

\* C4: two clusters farther apart than CONNECTION_RANGE, each with its nodes
\* mutually within range: at run end the neighbor graph has exactly two
\* connected components, each with exactly one node without parent, and no
\* neighbor link joins the clusters.
C4_TwoClusters ==
    done =>
       \A A \in Clusters :
          /\ Components = {A, all_nodes \ A}
          /\ \A C \in Components : Cardinality(Roots(C)) = 1
          /\ \A a \in A, b \in all_nodes \ A : ~Member(b, neighbors[a]) /\ ~Member(a, neighbors[b])

\* C5: with exactly 2 nodes within CONNECTION_RANGE, from the first DIO round
\* on and at run end exactly one node has no parent (the root) and the other
\* has the root as parent and the prefix root.prefix + ":" + its own suffix.
C5_TwoNodes ==
    (/\ all_nodes = {0, 1}
     /\ InRange(0, 1)
     /\ (done \/ now >= config.DIO_INTERVAL * TicksPerUnit)) =>
        \E root, child \in all_nodes :
            /\ root # child
            /\ parent[root] = None
            /\ parent[child] = root
            /\ prefix[child] = prefix[root] \o <<":">> \o Format02x(child)

C5_Witness ==
    /\ done
    /\ all_nodes = {0, 1}
    /\ InRange(0, 1)
    /\ now >= 2 * config.DIO_INTERVAL * TicksPerUnit
    /\ parent[0] = 1

\* C6: each parent change in receive_dio sets the node's prefix to the new
\* parent's prefix at that moment followed by ":" and the node's own suffix,
\* and parent and prefix change in the same step.
C6_PrefixOnAdoption ==
    [][\A n \in all_nodes :
          /\ (parent'[n] # parent[n]) <=> (prefix'[n] # prefix[n])
          /\ parent'[n] # parent[n] =>
                prefix'[n] = prefix[parent'[n]] \o <<":">> \o Format02x(n)]_vars

C6_Witness ==
    \E n \in all_nodes :
        /\ parent[n] \in JoinedDio(n)
        /\ prefix[n] = prefix[parent[n]] \o Suffix(n)
        /\ parent[parent[n]] # None

\* C7 as claimed: every parent change makes the node's own prefix exactly one
\* segment longer than it was before the change.
C7_PrefixGrowsByOne ==
    [][\A n \in all_nodes :
          parent'[n] # parent[n] => Segments(prefix'[n]) = Segments(prefix[n]) + 1]_vars

\* C7, amended: every parent change leaves the node's prefix exactly one
\* segment longer than the new parent's prefix; the first adoption makes the
\* node's own prefix at least one segment longer than it was.
C7_PrefixOneLongerThanParent ==
    [][\A n \in all_nodes :
          parent'[n] # parent[n] =>
             /\ Segments(prefix'[n]) = Segments(prefix[parent'[n]]) + 1
             /\ parent[n] = None => Segments(prefix'[n]) >= Segments(prefix[n]) + 1]_vars

\* A node that re-parented and whose prefix is no longer than after its first
\* adoption.
C7_Witness ==
    \E n \in all_nodes :
        /\ Cardinality(JoinedDio(n)) >= 2
        /\ parent[n] \in JoinedDio(n)
        /\ Segments(prefix[n]) = Segments(InitialPrefix(n)) + 1

\* C8: no node is ever its own neighbor or its own parent.
C8_NoSelfReference ==
    \A n \in all_nodes : ~Member(n, neighbors[n]) /\ parent[n] # n

C8_Witness ==
    \E n \in all_nodes : neighbors[n] # <<>> /\ parent[n] # None /\ done

\* A step of trickle_timer that fires: past its send_dis if it had to solicit.
Fires == /\ Resumes("trickle_timer")
         /\ \/ Top.pc = "join"
            \/ Top.pc = "wait" /\ neighbors[Top.self] # <<>>

\* C9: the trickle interval I never exceeds Imax and never decreases; from
\* I = Imin each firing sets I = min(2 * I, Imax), with or without neighbors,
\* and the wait t drawn after a firing lies in [I, Imax].
C9_TrickleInterval ==
    /\ [](\A n \in all_nodes : Imin <= I[n] /\ I[n] <= Imax)
    /\ [][/\ \A n \in all_nodes : I'[n] >= I[n]
          /\ \A n \in all_nodes :
                (I'[n] # I[n] \/ t'[n] # t[n]) => (Fires /\ Top.self = n)
          /\ Fires =>
                /\ I'[Top.self] = (IF 2 * I[Top.self] <= Imax THEN 2 * I[Top.self] ELSE Imax)
                /\ I'[Top.self] <= t'[Top.self]
                /\ t'[Top.self] <= Imax]_vars

\* A node without neighbors whose interval has been capped at Imax and whose
\* timer has fired again after that.
C9_Witness ==
    \E n \in all_nodes :
        /\ neighbors[n] = <<>>
        /\ I[n] = Imax
        /\ t[n] = Imax
        /\ now >= (Imin + 2 * Imin + 4 * Imin + 8 * Imin + Imax) * TicksPerUnit
        /\ \E m \in all_nodes : neighbors[m] # <<>> /\ I[m] = Imax

IsPrefixOf(a, b) == Len(a) <= Len(b) /\ SubSeq(b, 1, Len(a)) = a

\* C11: a node never regresses: once it has a parent it has one in every
\* later state, and its neighbor list only grows (no neighbor is removed), so
\* a node with neighbors never becomes isolated again.
C11_NoRegression ==
    [][\A n \in all_nodes :
          /\ parent[n] # None => parent'[n] # None
          /\ IsPrefixOf(neighbors[n], neighbors'[n])
          /\ neighbors[n] # <<>> => neighbors'[n] # <<>>]_vars

\* A node that took a parent and a second neighbor and kept both through later
\* DIO rounds to the end of the run.
C11_Witness ==
    /\ done
    /\ now >= 2 * config.DIO_INTERVAL * TicksPerUnit
    /\ \E n \in all_nodes : parent[n] # None /\ Len(neighbors[n]) >= 2

\* C12: with RUNTIME = 0 the run completes with no event executed beyond
\* time 0: the run is under way or has returned, and when it has returned
\* every node has an empty neighbor list, no parent and its initial prefix.
C12_RuntimeZero ==
    config.RUNTIME = 0 =>
       /\ Running \/ done
       /\ done => /\ now = 0
                  /\ \A n \in all_nodes :
                        /\ neighbors[n] = <<>>
                        /\ parent[n] = None
                        /\ prefix[n] = InitialPrefix(n)

\* The next step starts receive_dao on a parent that has a parent itself, for
\* the announcement of a child that has adopted it.
DaoArrives ==
    /\ Resumes("receive_dao")
    /\ Top.pc = "start"
    /\ parent[Top.arg] = Top.self
    /\ Top.pfx = prefix[Top.arg]
    /\ parent[Top.self] # None

\* C13: when a node that has just adopted a parent issues send_dao and that
\* parent has a parent itself, the parent's receive_dao passes its guard and
\* spawns receive_dao on the grandparent.
C13_DaoPropagates ==
    [][DaoArrives =>
          \E i \in 1..Len(queue') :
              queue'[i].stack
                 = <<Frame("receive_dao", parent[Top.self], Top.self, Top.pfx, "start")>>]_vars

\* The next step is a receive_dio that aborts on its loop-avoidance guard.
DioAborts ==
    /\ Resumes("receive_dio")
    /\ Top.pc = "start"
    /\ DioGuard(Top.self, Top.arg)

\* C14 as claimed: whenever receive_dio aborts on its loop-avoidance guard,
\* the receiver lies on the sender's current parent chain; the guard never
\* rejects a sender that is not a descendant of the receiver.
C14_GuardRejectsDescendants ==
    DioAborts => Reaches(Top.arg, Top.self, Cardinality(all_nodes))

\* The node number whose suffix ":db" occurs in the "2001:db8::" every prefix
\* starts with; the numbers from 16 * 16 on have more than two digits.
CollidingNode == 13 * 16 + 11

\* C14, amended: in a run whose node numbers are all below CollidingNode,
\* whenever receive_dio aborts on its loop-avoidance guard the receiver lies
\* on the sender's current parent chain.
C14_GuardRejectsDescendantsShortIds ==
    (DioAborts /\ \A n \in all_nodes : n < CollidingNode) =>
        Reaches(Top.arg, Top.self, Cardinality(all_nodes))

\* In a DIO round a node's DIO is about to be rejected by its parent, which
\* has a parent itself.
C14_Witness ==
    /\ DioAborts
    /\ \A n \in all_nodes : n < CollidingNode
    /\ now >= config.DIO_INTERVAL * TicksPerUnit
    /\ parent[Top.arg] = Top.self
    /\ parent[Top.self] # None

\* C15: in every reachable state the prefix of every node that has a parent
\* is its current parent's current prefix followed by ":" and its own
\* suffix, also after an ancestor has re-parented.
C15_PrefixIsPath ==
    \A n \in all_nodes :
        parent[n] # None => prefix[n] = prefix[parent[n]] \o <<":">> \o Format02x(n)

\* The next step resumes a handler (a generator of class Node).
HandlerStep == Running /\ Head(queue).stack # <<>> /\ Top.fn # "until"

\* The next step is a receive_dis that records a new link.
LinksNow ==
    /\ Resumes("receive_dis")
    /\ Top.pc = "start"
    /\ ~Member(Top.arg, neighbors[Top.self])

\* C16 as claimed: a handler executing on node X leaves the neighbors, parent
\* and prefix of every node other than X unchanged.
C16_LocalMutation ==
    [][HandlerStep =>
          \A n \in all_nodes \ {Top.self} :
              /\ neighbors'[n] = neighbors[n]
              /\ parent'[n] = parent[n]
              /\ prefix'[n] = prefix[n]]_vars

\* C16, amended: a handler executing on node X leaves the parent and prefix
\* of every other node unchanged, and their neighbors too, except that a
\* receive_dis which records a new link appends X to the sender's neighbors.
C16_LocalMutationButLink ==
    [][HandlerStep =>
          \A n \in all_nodes \ {Top.self} :
              /\ neighbors'[n] = (IF LinksNow /\ n = Top.arg
                                  THEN Append(neighbors[n], Top.self)
                                  ELSE neighbors[n])
              /\ parent'[n] = parent[n]
              /\ prefix'[n] = prefix[n]]_vars

\* Two of three nodes are linked, one of them has adopted the other, and the
\* third node is untouched.
C16_Witness ==
    \E a, b, c \in all_nodes :
        /\ a # b /\ c # a /\ c # b
        /\ neighbors[a] = <<b>>
        /\ neighbors[b] = <<a>>
        /\ parent[a] = b
        /\ neighbors[c] = <<>> /\ parent[c] = None /\ prefix[c] = InitialPrefix(c)

\* Two distinct nodes whose Euclidean distance is at most CONNECTION_RANGE.
Near(a, b) == a # b /\ Dist(a, b) <= config.CONNECTION_RANGE * config.CONNECTION_RANGE

\* All events of time 0.1 have executed.
DiscoveryOver ==
    \/ done
    \/ now >= DiscoverDelay /\ queue # <<>> /\ Head(queue).time > DiscoverDelay

\* C17: at every time a neighbor link exists only between two distinct nodes
\* at distance <= CONNECTION_RANGE, and once all events of time 0.1 have
\* executed every two distinct nodes at that distance are neighbors of each
\* other.
C17_Discovery ==
    /\ \A a, b \in all_nodes : Member(b, neighbors[a]) => Near(a, b)
    /\ DiscoveryOver =>
          \A a, b \in all_nodes : Near(a, b) => Member(b, neighbors[a]) /\ Member(a, neighbors[b])

\* Discovery is over for three nodes: two at distance CONNECTION_RANGE exactly
\* are linked, two farther apart are not.
C17_Witness ==
    /\ DiscoveryOver
    /\ ~done
    /\ \E a, b, c \in all_nodes :
          /\ Dist(a, b) = config.CONNECTION_RANGE * config.CONNECTION_RANGE
          /\ Member(b, neighbors[a])
          /\ a # c /\ ~Near(a, c) /\ ~Member(c, neighbors[a])

\* Simulated time 0.1, in ticks.
TenthOfUnit == TicksPerUnit \div 10

\* C18: every neighbor link is created by events at simulated time 0.1; a
\* send_dis spawned by trickle_timer (which fires at time 1 at the earliest)
\* never leads to a new link, because a node that has no neighbors when it
\* solicits has no other node within CONNECTION_RANGE.
C18_TrickleKeepsTopology ==
    /\ []((Resumes("send_dis") /\ Top.pc = "start" /\ neighbors[Top.self] = <<>>) =>
             \A n \in all_nodes : ~Near(Top.self, n))
    /\ [][neighbors' # neighbors => now' = TenthOfUnit]_vars

\* A node without neighbors has solicited at two trickle firings or more while
\* two other nodes are linked.
C18_Witness ==
    /\ \E n \in all_nodes : neighbors[n] = <<>> /\ I[n] > 2 * Imin
    /\ \E n \in all_nodes : neighbors[n] # <<>>
    /\ \E f \in Frames : f.fn = "send_dis" /\ f.pc = "final"

\* C19: in every reachable state a node's parent, when present, is a member
\* of the node's neighbor list, hence within CONNECTION_RANGE of it; a node
\* without neighbors never has a parent.
C19_ParentIsNeighbor ==
    \A n \in all_nodes :
        /\ parent[n] # None => Member(parent[n], neighbors[n]) /\ Near(n, parent[n])
        /\ neighbors[n] = <<>> => parent[n] = None

\* At the end of a run a node has a parent that is not the first of its
\* several neighbors.
C19_Witness ==
    /\ done
    /\ \E n \in all_nodes : parent[n] # None /\ Len(neighbors[n]) >= 2
                             /\ parent[n] # neighbors[n][1]

\* C20: no two nodes are ever each other's parent.
C20_NoMutualParents ==
    \A a, b \in all_nodes : ~(parent[a] = b /\ parent[b] = a)

\* A DIO of a child is about to be rejected by its parent, which would adopt
\* the child but for the guard.
C20_Witness ==
    /\ DioAborts
    /\ parent[Top.arg] = Top.self
    /\ Adopts(Top.self, Top.arg)
=============================================================================
